---- MODULE Spec2Model ----
(***************************************************************************)
(* Model of versioning.py: the release resolver supported_release and the  *)
(* global tag composers recommended_global_tags_v2 and                     *)
(* recommended_global_tags.                                                *)
(*                                                                         *)
(* Python strings are sequences of one-character strings, so that          *)
(* startswith, slicing, split and join are computed as Python computes    *)
(* them.  Python None and the exceptions a call can end with are          *)
(* one-element sequences holding a bracketed name; no Python string of    *)
(* the model equals them.                                                  *)
(***************************************************************************)
EXTENDS FiniteSets, Integers, Sequences, TLC

\* ------------------------------------------------------------------------
\* Bounds of the explored input space
\* ------------------------------------------------------------------------
MaxMajor == 6
MaxMinor == 2
MaxPatch == 17
MaxBaseTags == 2

\* ------------------------------------------------------------------------
\* Python values
\* ------------------------------------------------------------------------
None == <<"<None>">>
TypeError == <<"<TypeError>">>
AttributeError == <<"<AttributeError>">>
KeyError == <<"<KeyError>">>
Exceptions == {TypeError, AttributeError, KeyError}

DigitChars == <<"0","1","2","3","4","5","6","7","8","9">>
DigitSet == {DigitChars[i] : i \in 1..10}
LowerSet == {"a","b","c","d","e","f","g","h","i","j","k","l","m",
             "n","o","p","q","r","s","t","u","v","w","x","y","z"}
\* the characters of the model in code point order
CodePoints == <<"-",".","0","1","2","3","4","5","6","7","8","9",
                "A","B","C","D","E","F","G","H","I","J","K","L","M",
                "N","O","P","Q","R","S","T","U","V","W","X","Y","Z","_",
                "a","b","c","d","e","f","g","h","i","j","k","l","m",
                "n","o","p","q","r","s","t","u","v","w","x","y","z">>
ord(c) == CHOOSE i \in 1..Len(CodePoints) : CodePoints[i] = c
DigitVal(c) == CHOOSE d \in 0..9 : DigitChars[d + 1] = c

Min(a, b) == IF a < b THEN a ELSE b
Last(s) == s[Len(s)]

\* str.startswith(prefix)
startswith(s, prefix) ==
    /\ Len(s) >= Len(prefix)
    /\ SubSeq(s, 1, Len(prefix)) = prefix

\* s[lo:hi] for 0 <= lo <= hi; Python clamps the slice to the string
Slice(s, lo, hi) == SubSeq(s, lo + 1, Min(hi, Len(s)))

\* str.split(sep) for a one-character separator
RECURSIVE SplitFrom(_, _, _, _)
SplitFrom(s, sep, i, cur) ==
    IF i > Len(s) THEN <<cur>>
    ELSE IF s[i] = sep THEN <<cur>> \o SplitFrom(s, sep, i + 1, <<>>)
    ELSE SplitFrom(s, sep, i + 1, Append(cur, s[i]))
split(s, sep) == SplitFrom(s, sep, 1, <<>>)

\* sep.join(parts)
RECURSIVE join(_, _)
join(sep, parts) ==
    IF Len(parts) = 0 THEN <<>>
    ELSE IF Len(parts) = 1 THEN parts[1]
    ELSE parts[1] \o <<sep>> \o join(sep, Tail(parts))

\* int(s) for a run of decimal digits
RECURSIVE IntOf(_)
IntOf(s) ==
    IF Len(s) = 0 THEN 0
    ELSE 10 * IntOf(SubSeq(s, 1, Len(s) - 1)) + DigitVal(Last(s))

\* two-digit decimal field of a release name
TwoDigits(n) == <<DigitChars[(n \div 10) + 1], DigitChars[(n % 10) + 1]>>

\* str < str, by code point
RECURSIVE StrLt(_, _)
StrLt(a, b) ==
    IF Len(b) = 0 THEN FALSE
    ELSE IF Len(a) = 0 THEN TRUE
    ELSE IF a[1] = b[1] THEN StrLt(Tail(a), Tail(b))
    ELSE ord(a[1]) < ord(b[1])

\* ------------------------------------------------------------------------
\* distutils.version.LooseVersion
\* ------------------------------------------------------------------------
\* the alternative of component_re a character belongs to:
\* \d+, [a-z]+, \. or the text between matches
CharClass(c) ==
    IF c \in DigitSet THEN "digit"
    ELSE IF c \in LowerSet THEN "lower"
    ELSE IF c = "." THEN "dot"
    ELSE "other"

\* component_re.split(vstring) without the empty strings and the dots
RECURSIVE ComponentRuns(_, _, _)
ComponentRuns(s, i, cur) ==
    LET flush == IF Len(cur) = 0 THEN <<>> ELSE <<cur>>
    IN  IF i > Len(s) THEN flush
        ELSE IF s[i] = "." THEN flush \o ComponentRuns(s, i + 1, <<>>)
        ELSE IF Len(cur) = 0 \/ CharClass(cur[1]) = CharClass(s[i])
             THEN ComponentRuns(s, i + 1, Append(cur, s[i]))
        ELSE <<cur>> \o ComponentRuns(s, i + 1, <<s[i]>>)

\* a component: an int when the run is numeric, else the run itself
Component(run) ==
    IF run[1] \in DigitSet
    THEN [num |-> TRUE, n |-> IntOf(run), s |-> <<>>]
    ELSE [num |-> FALSE, n |-> 0, s |-> run]

\* LooseVersion(vstring): parse is skipped for an empty vstring, which
\* leaves the object without a version attribute
LooseVersion(vstring) ==
    IF Len(vstring) = 0 THEN [parsed |-> FALSE, version |-> <<>>]
    ELSE LET runs == ComponentRuns(vstring, 1, <<>>)
         IN  [parsed |-> TRUE,
              version |-> [i \in 1..Len(runs) |-> Component(runs[i])]]

\* Python list comparison of two version lists: "lt", "eq", "gt", or
\* "TypeError" when the first differing pair is an int and a str
RECURSIVE ListCmp(_, _)
ListCmp(a, b) ==
    IF Len(a) = 0 /\ Len(b) = 0 THEN "eq"
    ELSE IF Len(a) = 0 THEN "lt"
    ELSE IF Len(b) = 0 THEN "gt"
    ELSE IF a[1] = b[1] THEN ListCmp(Tail(a), Tail(b))
    ELSE IF a[1].num /\ b[1].num
         THEN (IF a[1].n < b[1].n THEN "lt" ELSE "gt")
    ELSE IF ~a[1].num /\ ~b[1].num
         THEN (IF StrLt(a[1].s, b[1].s) THEN "lt" ELSE "gt")
    ELSE "TypeError"

\* LooseVersion._cmp
LooseCmp(v, w) ==
    IF ~v.parsed \/ ~w.parsed THEN "AttributeError"
    ELSE ListCmp(v.version, w.version)

\* v <= w (LooseVersion.__le__): "True", "False", or the name of the
\* exception raised by _cmp
LooseLt(v, w) ==
    LET c == LooseCmp(v, w)
    IN  IF c \in {"TypeError", "AttributeError"} THEN c
        ELSE IF c = "lt" THEN "True" ELSE "False"
LooseLe(v, w) ==
    LET c == LooseCmp(v, w)
    IN  IF c \in {"TypeError", "AttributeError"} THEN c
        ELSE IF c \in {"lt", "eq"} THEN "True" ELSE "False"

\* ------------------------------------------------------------------------
\* The tables
\* ------------------------------------------------------------------------
pre == <<"p","r","e">>
release_ == <<"r","e","l","e","a","s","e","-">>
light_ == <<"l","i","g","h","t","-">>

release_04_02_09 == <<"r","e","l","e","a","s","e","-","0","4","-","0","2","-","0","9">>
release_05_01_16 == <<"r","e","l","e","a","s","e","-","0","5","-","0","1","-","1","6">>
release_05_02_00 == <<"r","e","l","e","a","s","e","-","0","5","-","0","2","-","0","0">>
light_2012_minos == <<"l","i","g","h","t","-","2","0","1","2","-","m","i","n","o","s">>
light_2102_nemesis == <<"l","i","g","h","t","-","2","1","0","2","-","n","e","m","e","s","i","s">>
light_2103_oceanos == <<"l","i","g","h","t","-","2","1","0","3","-","o","c","e","a","n","o","s">>

_supported_releases == <<release_04_02_09, release_05_01_16, release_05_02_00>>
_supported_light_releases == <<light_2012_minos, light_2102_nemesis, light_2103_oceanos>>

\* ------------------------------------------------------------------------
\* supported_release
\* ------------------------------------------------------------------------
\* LooseVersion('.'.join(release.split('-')[1:]))
basf2_version_from_2(release) ==
    LooseVersion(join(".", Tail(Tail(split(release, "-")))))
basf2_version(release) == LooseVersion(join(".", Tail(split(release, "-"))))

\* release[3:19] when release starts with 'pre'
StripPre(release) ==
    IF startswith(release, pre) THEN Slice(release, 3, 19) ELSE release

\* the loop over _supported_releases from index i on: the release it
\* returns, the exception it raises, or None when it ends without returning
RECURSIVE SupportedLoop(_, _)
SupportedLoop(release, i) ==
    IF i > Len(_supported_releases) THEN None
    ELSE LET le == LooseLe(basf2_version(release),
                           basf2_version(_supported_releases[i]))
         IN  IF le = "TypeError" THEN TypeError
             ELSE IF le = "AttributeError" THEN AttributeError
             ELSE IF le = "True" THEN _supported_releases[i]
             ELSE SupportedLoop(release, i + 1)

\* the light release branch
LightBranch(release) ==
    IF release \in {_supported_light_releases[i] :
                        i \in 1..Len(_supported_light_releases)}
    THEN release
    ELSE Last(_supported_light_releases)

\* the final return: the latest supported release
OldestSupported == _supported_releases[1]
LatestSupported == Last(_supported_releases)

supported_release(release) ==
    IF release = None THEN Last(_supported_releases)
    ELSE LET r == StripPre(release)
             looped == IF startswith(r, release_)
                       THEN SupportedLoop(r, 1) ELSE None
         IN  IF looped # None THEN looped
             ELSE IF startswith(r, light_) THEN LightBranch(r)
             ELSE LatestSupported

\* ------------------------------------------------------------------------
\* recommended_global_tags_v2
\* ------------------------------------------------------------------------
master_ == <<"m","a","s","t","e","r","_">>
data_ == <<"d","a","t","a","_">>
mc_ == <<"m","c","_">>
analysis_ == <<"a","n","a","l","y","s","i","s","_">>
release == <<"r","e","l","e","a","s","e">>
light == <<"l","i","g","h","t">>
online == <<"o","n","l","i","n","e">>
B2BII == <<"B","2","B","I","I">>
data_reprocessing_proc9 == <<"d","a","t","a","_","r","e","p","r","o","c","e","s","s","i","n","g","_","p","r","o","c","9">>
mc_production_mc12 == <<"m","c","_","p","r","o","d","u","c","t","i","o","n","_","m","c","1","2">>
analysis_tools_light_2012_minos == <<"a","n","a","l","y","s","i","s","_","t","o","o","l","s","_","l","i","g","h","t","-","2","0","1","2","-","m","i","n","o","s">>

\* An argument that is None or a list: user_tags and metadata
NoList == [isNone |-> TRUE, items |-> <<>>]
List(items) == [isNone |-> FALSE, items |-> items]
\* truth value of such an argument: a non-empty list
Truthy(arg) == ~arg.isNone /\ Len(arg.items) > 0

\* the keys of metadata[0] that the function reads
MetadataKeys == {"release", "isMC", "experimentLow", "experimentHigh"}

existing_master_tags_master_only(base_tags) ==
    SelectSeq(base_tags, LAMBDA tag : startswith(tag, master_))
existing_master_tags(base_tags) ==
    SelectSeq(base_tags, LAMBDA tag : startswith(tag, master_)
                                        \/ startswith(tag, release_))
existing_data_tags(base_tags) ==
    SelectSeq(base_tags, LAMBDA tag : startswith(tag, data_))
existing_mc_tags(base_tags) ==
    SelectSeq(base_tags, LAMBDA tag : startswith(tag, mc_))
existing_analysis_tags(base_tags) ==
    SelectSeq(base_tags, LAMBDA tag : startswith(tag, analysis_))

is_run_independent_mc(metadata) ==
    IF Truthy(metadata)
    THEN /\ metadata.items[1].experimentLow = metadata.items[1].experimentHigh
         /\ metadata.items[1].experimentLow \in {0, 1002, 1003}
    ELSE FALSE

\* the three tables, each with the latest supported release as only key:
\* table.get(recommended_release, None)
data_tag(recommended_release) ==
    IF recommended_release = Last(_supported_releases)
    THEN data_reprocessing_proc9 ELSE None
mc_tag(recommended_release) ==
    IF recommended_release = Last(_supported_releases)
    THEN mc_production_mc12 ELSE None
analysis_tag(recommended_release) ==
    IF recommended_release = Last(_supported_releases)
    THEN analysis_tools_light_2012_minos ELSE None

\* result['tags'].insert(0, 'online')
InsertOnline(tags) == <<online>> \o tags
\* result['tags'].insert(0, data_tag)
AppendData(tags, dtag) == tags \o <<dtag>>
PrependData(tags, dtag) == <<dtag>> \o tags
\* result['tags'].insert(0, mc_tag)
PrependMc(tags, mtag) == <<mtag>> \o tags
\* result['tags'].insert(0, analysis_tag)
AppendAnalysis(tags, atag) == tags \o <<atag>>
PrependAnalysis(tags, atag) == <<atag>> \o tags

\* result['tags'] and the warnings after the branch on metadata == []

MetadataBranch(base_tags, metadata, recommended_release) ==
    IF ~metadata.isNone /\ Len(metadata.items) = 0
    THEN [tags |-> <<B2BII>>, message |-> <<>>]
    ELSE LET kept == existing_master_tags(base_tags)
             with_online == InsertOnline(kept)
             dtag == data_tag(recommended_release)
             mtag == mc_tag(recommended_release)
             use_data == metadata.isNone \/ ~is_run_independent_mc(metadata)
             use_mc == metadata.isNone \/ Len(existing_mc_tags(base_tags)) > 0
             with_data == IF use_data /\ dtag # None
                          THEN PrependData(with_online, dtag)
                          ELSE with_online
             with_mc == IF use_mc /\ mtag # None
                        THEN PrependMc(with_data, mtag)
                        ELSE with_data
         IN  [tags |-> with_mc,
              message |->
                  (IF use_data /\ dtag = None THEN <<"no_data_tag">> ELSE <<>>)
                  \o (IF use_mc /\ mtag = None THEN <<"no_mc_tag">> ELSE <<>>)]

\* The returned dictionary, with exc = None, or the exception raised.
\* message lists the texts appended to result['message'], by name;
\* release = None stands for a dictionary without the key 'release'.
Raise(exception) ==
    [exc |-> exception, tags |-> <<>>, message |-> <<>>, release |-> None]

recommended_global_tags_v2(rel, base_tags, user_tags, metadata) ==
    IF Truthy(metadata) /\ ~(MetadataKeys \subseteq DOMAIN metadata.items[1])
    THEN Raise(KeyError)
    ELSE
    LET recommended_release == supported_release(rel)
        advise == /\ startswith(rel, release) \/ startswith(rel, light)
                  /\ recommended_release # rel
        branch == MetadataBranch(base_tags, metadata, recommended_release)
        atag == analysis_tag(recommended_release)
        tags == IF atag # None THEN PrependAnalysis(branch.tags, atag)
                ELSE branch.tags
    IN  IF recommended_release \in Exceptions
        THEN Raise(recommended_release)
        ELSE [exc |-> None,
              tags |-> tags,
              message |->
                  (IF advise THEN <<"recommend_release">> ELSE <<>>)
                  \o branch.message
                  \o (IF atag = None THEN <<"no_analysis_tag">> ELSE <<>>)
                  \o (IF tags # base_tags THEN <<"tags_differ">> ELSE <<>>),
              release |-> IF advise THEN recommended_release ELSE None]

\* ------------------------------------------------------------------------
\* recommended_global_tags
\* ------------------------------------------------------------------------
\* the metadata the function builds for recommended_global_tags_v2
BuiltMetadata(mc_arg) ==
    IF ~mc_arg THEN List(<<[key \in {"release"} |-> None]>>) ELSE NoList

\* result['tags'], or the exception raised by recommended_global_tags_v2
recommended_global_tags(rel, mc_arg, analysis_arg, input_tags) ==
    LET returned == recommended_global_tags_v2(rel, input_tags, NoList,
                                               BuiltMetadata(mc_arg))
    IN  [exc |-> returned.exc, tags |-> returned.tags]

\* ------------------------------------------------------------------------
\* Inputs
\* ------------------------------------------------------------------------
FullRelease(x, y, z) ==
    release_ \o TwoDigits(x) \o <<"-">> \o TwoDigits(y) \o <<"-">> \o TwoDigits(z)
FullReleases ==
    {FullRelease(x, y, z) : x \in 3..MaxMajor, y \in 0..MaxMinor, z \in 0..MaxPatch}

light_2104_poseidon == <<"l","i","g","h","t","-","2","1","0","4","-","p","o","s","e","i","d","o","n">>
light_2002_ichep == <<"l","i","g","h","t","-","2","0","0","2","-","i","c","h","e","p">>
LightReleases ==
    {light_2012_minos, light_2102_nemesis, light_2103_oceanos,
     light_2104_poseidon, light_2002_ichep}

\* names of neither shape
OtherNames ==
    {<<>>,
     <<"f","o","o">>,
     <<"d","e","v","e","l","o","p","m","e","n","t">>,
     release_,
     <<"r","e","l","e","a","s","e","-","r","c">>,
     <<"r","e","l","e","a","s","e","-","0","5","-","0","2">>,
     <<"r","e","l","e","a","s","e","-","5",".","2",".","0">>,
     <<"r","e","l","e","a","s","e","-","0","5","-","0","2","-","0","0","a">>}

ReleaseNames == FullReleases \cup LightReleases \cup OtherNames
ReleaseInputs ==
    {None} \cup ReleaseNames \cup {pre \o name : name \in ReleaseNames}

\* the releases the composers are called with
ComposeReleases ==
    {release_04_02_09, release_05_01_16, release_05_02_00,
     FullRelease(3, 0, 0), FullRelease(4, 2, 10), FullRelease(MaxMajor, 0, 0),
     pre \o release_05_02_00,
     light_2012_minos, light_2102_nemesis, light_2103_oceanos,
     light_2104_poseidon,
     <<"f","o","o">>,
     <<"r","e","l","e","a","s","e","-","r","c">>}

main_MC15 == <<"m","a","i","n","_","M","C","1","5">>
TagNames ==
    {main_MC15,
     <<"m","a","s","t","e","r","_","a">>,
     <<"r","e","l","e","a","s","e","-","0","1">>,
     <<"p","r","e","r","e","l","e","a","s","e","-","0","1">>,
     <<"d","a","t","a","_","a">>,
     <<"m","c","_","a">>,
     online}
TagLists == UNION {[1..n -> TagNames] : n \in 0..MaxBaseTags}

UserTagLists == {NoList, List(<<online>>)}

Experiments == {0, 7, 1002, 1003}
MetadataRecords ==
    [isMC : BOOLEAN, experimentLow : Experiments,
     experimentHigh : Experiments, release : {None}]
MetadataLists ==
    {NoList, List(<<>>)} \cup {List(<<record>>) : record \in MetadataRecords}

\* ------------------------------------------------------------------------
\* The calls
\* ------------------------------------------------------------------------
VARIABLES
    pc,          \* the function that was called last, "idle" before any call
    arg_release, \* its argument release
    base_tags,   \* base_tags of recommended_global_tags_v2 (input_tags)
    user_tags,   \* user_tags of recommended_global_tags_v2
    metadata,    \* metadata of recommended_global_tags_v2
    mc,          \* mc of recommended_global_tags
    analysis,    \* analysis of recommended_global_tags
    prev,        \* what supported_release returned the first time
    ret,         \* what supported_release returned
    result       \* what the composer returned

vars == <<pc, arg_release, base_tags, user_tags, metadata, mc, analysis,
          prev, ret, result>>

Init ==
    /\ pc = "idle"
    /\ arg_release = None
    /\ base_tags = <<>>
    /\ user_tags = NoList
    /\ metadata = NoList
    /\ mc = FALSE
    /\ analysis = TRUE
    /\ prev = None
    /\ ret = None
    /\ result = Raise(None)

\* supported_release(release)
SupportedRelease ==
    /\ pc = "idle"
    /\ \E name \in ReleaseInputs :
        /\ arg_release' = name
        /\ ret' = supported_release(name)
    /\ pc' = "supported_release"
    /\ UNCHANGED <<base_tags, user_tags, metadata, mc, analysis, prev, result>>

\* supported_release(supported_release(release)): an exception raised by
\* the inner call ends the nested call
SupportedReleaseAgain ==
    /\ pc = "supported_release"
    /\ prev' = ret
    /\ ret' = IF ret \in Exceptions THEN ret ELSE supported_release(ret)
    /\ pc' = "supported_release_again"
    /\ UNCHANGED <<arg_release, base_tags, user_tags, metadata, mc, analysis,
                   result>>

\* recommended_global_tags_v2(release, base_tags, user_tags, metadata)
RecommendedGlobalTagsV2 ==
    /\ pc = "idle"
    /\ \E name \in ComposeReleases, base \in TagLists,
          user \in UserTagLists, meta \in MetadataLists :
        /\ arg_release' = name
        /\ base_tags' = base
        /\ user_tags' = user
        /\ metadata' = meta
        /\ result' = recommended_global_tags_v2(name, base, user, meta)
    /\ pc' = "recommended_global_tags_v2"
    /\ UNCHANGED <<mc, analysis, prev, ret>>

\* recommended_global_tags(release, mc, analysis, input_tags)
RecommendedGlobalTags ==
    /\ pc = "idle"
    /\ \E name \in ComposeReleases, m \in BOOLEAN, a \in BOOLEAN,
          input_tags \in TagLists :
        /\ arg_release' = name
        /\ mc' = m
        /\ analysis' = a
        /\ base_tags' = input_tags
        /\ user_tags' = NoList
        /\ metadata' = BuiltMetadata(m)
        /\ result' = recommended_global_tags(name, m, a, input_tags)
    /\ pc' = "recommended_global_tags"
    /\ UNCHANGED <<prev, ret>>

Next ==
    \/ SupportedRelease
    \/ SupportedReleaseAgain
    \/ RecommendedGlobalTagsV2
    \/ RecommendedGlobalTags

Spec == Init /\ [][Next]_vars

\* ------------------------------------------------------------------------
\* Properties
\* ------------------------------------------------------------------------
\* the numeric triple of a name of the shape release-XX-YY-ZZ
Triple(name) ==
    <<IntOf(SubSeq(name, 9, 10)), IntOf(SubSeq(name, 12, 13)),
      IntOf(SubSeq(name, 15, 16))>>
TripleLt(a, b) ==
    \/ a[1] < b[1]
    \/ a[1] = b[1] /\ a[2] < b[2]
    \/ a[1] = b[1] /\ a[2] = b[2] /\ a[3] < b[3]
NewestTriple == Triple(release_05_02_00)
Range(seq) == {seq[i] : i \in 1..Len(seq)}
SupportedNames ==
    {release_04_02_09, release_05_01_16, release_05_02_00,
     light_2012_minos, light_2102_nemesis, light_2103_oceanos}

\* supported_release(release) returned for a name release-XX-YY-ZZ
ResolvedFull == pc = "supported_release" /\ arg_release \in FullReleases

\* C1 as stated: a release-XX-YY-ZZ input newer than the newest supported
\* full release is returned unchanged.
C1_NewerReturnedUnchanged ==
    (ResolvedFull /\ TripleLt(NewestTriple, Triple(arg_release)))
        => ret = arg_release

\* C1 amended: for a release-XX-YY-ZZ input newer than the newest supported
\* full release, supported_release returns the newest supported full
\* release, the last element of _supported_releases.
C1_NewerReturnsNewestSupported ==
    (ResolvedFull /\ TripleLt(NewestTriple, Triple(arg_release)))
        => ret = release_05_02_00

C1_Witness ==
    /\ pc = "supported_release"
    /\ arg_release = FullRelease(6, 0, 0)
    /\ ret = release_05_02_00

\* C2: every element of _supported_releases and of
\* _supported_light_releases is returned by supported_release unchanged.
C2_SupportedIsFixedPoint ==
    (pc = "supported_release" /\ arg_release \in SupportedNames)
        => ret = arg_release

C2_Witness ==
    /\ pc = "supported_release"
    /\ arg_release = release_04_02_09
    /\ ret = release_04_02_09

\* the first element of _supported_releases whose triple satisfies Above
FirstSupported(Above(_)) ==
    _supported_releases[
        CHOOSE i \in 1..Len(_supported_releases) :
            /\ Above(Triple(_supported_releases[i]))
            /\ \A j \in 1..(i - 1) : ~Above(Triple(_supported_releases[j]))]

\* C3 as stated: a release-XX-YY-ZZ input older than the newest supported
\* full release resolves to the first supported full release whose version
\* is strictly greater than the input's.
C3_RoundsUpStrictly ==
    (ResolvedFull /\ TripleLt(Triple(arg_release), NewestTriple))
        => ret = FirstSupported(LAMBDA t : TripleLt(Triple(arg_release), t))

\* C3 amended: a release-XX-YY-ZZ input older than the newest supported
\* full release resolves to the first supported full release whose version
\* is greater than or equal to the input's.
C3_RoundsUpOrKeeps ==
    (ResolvedFull /\ TripleLt(Triple(arg_release), NewestTriple))
        => ret = FirstSupported(LAMBDA t : ~TripleLt(t, Triple(arg_release)))

C3_Witness ==
    /\ pc = "supported_release"
    /\ arg_release = FullRelease(4, 2, 10)
    /\ ret = release_05_01_16

\* C4: for a name r of the shape release-XX-YY-ZZ or light-YYMM-codename,
\* supported_release('pre' + r) equals supported_release(r).
C4_PreResolvesLikeFinal ==
    \A name \in FullReleases \cup LightReleases :
        (pc = "supported_release" /\ arg_release = pre \o name)
            => ret = supported_release(name)

\* C5: for every input x, supported_release(x) returns a value and
\* supported_release applied to that value returns the same value.
C5_Idempotent ==
    pc = "supported_release_again"
        => /\ prev \notin Exceptions
           /\ ret \notin Exceptions
           /\ ret = prev

\* recommended_global_tags_v2 returned a dictionary
ComposedV2 == pc = "recommended_global_tags_v2" /\ result.exc = None
EmptyMetadata == ~metadata.isNone /\ Len(metadata.items) = 0
\* the tables have an entry for the release the argument resolves to
TagsDefined == supported_release(arg_release) = release_05_02_00

\* C6 as stated: with metadata the empty list, the returned tags are
\* exactly ['B2BII'].
C6_OnlyB2BII ==
    (ComposedV2 /\ EmptyMetadata) => result.tags = <<B2BII>>

\* C6 amended: with metadata the empty list, the returned tags are
\* ['B2BII'], preceded by the analysis tag when one is defined for the
\* resolved release; no online, data, mc or base tag is added.
C6_B2BIIAfterAnalysis ==
    (ComposedV2 /\ EmptyMetadata)
        => result.tags = IF TagsDefined
                         THEN <<analysis_tools_light_2012_minos, B2BII>>
                         ELSE <<B2BII>>

C6_Witness ==
    /\ ComposedV2
    /\ EmptyMetadata
    /\ Len(base_tags) > 0
    /\ result.tags = <<analysis_tools_light_2012_minos, B2BII>>

\* the tags the function recommends on its own
RecommendedNames ==
    {online, data_reprocessing_proc9, mc_production_mc12,
     analysis_tools_light_2012_minos}
\* tags = head \o kept, with 'online' and only recommended tags in head
EndsWith(tags, kept) ==
    /\ Len(tags) > Len(kept)
    /\ SubSeq(tags, Len(tags) - Len(kept) + 1, Len(tags)) = kept
    /\ online \in Range(SubSeq(tags, 1, Len(tags) - Len(kept)))
    /\ Range(SubSeq(tags, 1, Len(tags) - Len(kept))) \subseteq RecommendedNames

IsMainTag(tag) ==
    \/ startswith(tag, <<"m","a","i","n","_">>)
    \/ startswith(tag, <<"m","a","s","t","e","r","_">>)
    \/ startswith(tag, <<"r","e","l","e","a","s","e","-">>)
    \/ startswith(tag, <<"p","r","e","r","e","l","e","a","s","e","-">>)
IsMasterTag(tag) ==
    \/ startswith(tag, <<"m","a","s","t","e","r","_">>)
    \/ startswith(tag, <<"r","e","l","e","a","s","e","-">>)

\* C7 as stated: with metadata not the empty list, the base tags with
\* prefix main_, master_, release- or prerelease- are kept, in their
\* order, at the end of the tags, after 'online' and the recommended tags.
C7_MainTagsKeptLast ==
    (ComposedV2 /\ ~EmptyMetadata)
        => EndsWith(result.tags, SelectSeq(base_tags, IsMainTag))

\* C7 amended: with metadata not the empty list, the base tags with
\* prefix master_ or release- are kept, in their order, at the end of
\* the tags, after 'online' and the recommended tags; no other base tag
\* is kept.
C7_MasterTagsKeptLast ==
    (ComposedV2 /\ ~EmptyMetadata)
        => EndsWith(result.tags, SelectSeq(base_tags, IsMasterTag))

C7_Witness ==
    /\ ComposedV2
    /\ ~EmptyMetadata
    /\ Len(SelectSeq(base_tags, IsMasterTag)) = 2
    /\ base_tags[1] # base_tags[2]
    /\ Len(result.tags) = 6
    /\ SubSeq(result.tags, 5, 6) = SubSeq(base_tags, 1, 2)

\* C8: recommended_global_tags returns a list of tags for every release,
\* mc, analysis and input_tags; it never raises.
C8_NeverRaises ==
    pc = "recommended_global_tags" => result.exc = None

\* C9: for a release with an analysis tag defined, the list returned by
\* recommended_global_tags contains the analysis tag when analysis is
\* True and no analysis_ tag when analysis is False.
C9_AnalysisParameterDecides ==
    (pc = "recommended_global_tags" /\ result.exc = None /\ TagsDefined)
        => /\ analysis
              => analysis_tools_light_2012_minos \in Range(result.tags)
           /\ ~analysis
              => \A tag \in Range(result.tags) : ~startswith(tag, analysis_)

\* C10: with metadata None the tags hold 'online' exactly once; before it
\* come the analysis, mc and data tag, in this order, each exactly when
\* defined for the resolved release; after it come only kept base tags.
C10_GenerationOrder ==
    (ComposedV2 /\ metadata.isNone)
        => \E k \in 1..Len(result.tags) :
            /\ result.tags[k] = online
            /\ \A j \in 1..Len(result.tags) :
                   result.tags[j] = online => j = k
            /\ SubSeq(result.tags, 1, k - 1) =
                   IF TagsDefined
                   THEN <<analysis_tools_light_2012_minos,
                          mc_production_mc12, data_reprocessing_proc9>>
                   ELSE <<>>
            /\ \A j \in (k + 1)..Len(result.tags) :
                   result.tags[j] \in Range(base_tags)

C10_Witness ==
    /\ ComposedV2
    /\ metadata.isNone
    /\ Len(base_tags) = 2
    /\ Len(result.tags) = 5
    /\ result.tags[4] = online
    /\ result.tags[5] = base_tags[2]

====
